---- MODULE Spec2Model ----
(***************************************************************************)
(* Model of the codeCTRL Rust logger (src/src/lib.rs): Log::log and its    *)
(* gated wrappers, the stack walk of get_stack_trace, the source readers   *)
(* get_code / get_code_snippet and the one-shot transport _log.            *)
(*                                                                         *)
(* Strings are sequences of one-character strings, so that split, join,    *)
(* starts_with, ends_with, contains and trim are computed as Rust does.    *)
(***************************************************************************)
EXTENDS Integers, Sequences, FiniteSets

VARIABLES
    pc,          \* position of the capture: "start", "log", "walk", "build",
                 \* "runtime", "send", "returned", "panicked"
    entry,       \* entry point called: "none", "log", "log_if", "boxed_log_if"
    surround,    \* Option<u32> argument: None or a number
    log,         \* the Log<T> value under construction
    visited,     \* symbols handed to the resolve callback, in visiting order
    outcome,     \* result of the call: "none", "Ok", "OkTrue", "OkFalse", "Err",
                 \* or a panic: "PanicOpenLine" (get_code), "PanicOpen",
                 \* "PanicOverflow", "PanicRange" (get_code_snippet), "PanicAddr"
    backtraces,  \* number of Backtrace::new() calls (stack walks started)
    opens,       \* number of File::open calls
    openFailed,  \* some File::open of this capture failed
    conns,       \* number of connect attempts
    writes,      \* number of write_all attempts
    netFailed,   \* "none", "connect" or "write": the transport step that failed
    condition,   \* value of the gate's predicate: "none", "true", "false"
    wFile,       \* window check: the file handed to get_code_snippet
    wLine,       \* window check: line_number
    wSurround,   \* window check: surround
    wOut,        \* window check: result of get_code_snippet
    rSym,        \* resolve check: the symbol handed to the resolve callback
    rOpen,       \* resolve check: whether File::open succeeds
    rOut         \* resolve check: result of the callback on an empty stack

vars == <<pc, entry, surround, log, visited, outcome, backtraces, opens,
          openFailed, conns, writes, netFailed, condition, wFile, wLine, wSurround, wOut,
          rSym, rOpen, rOut>>

captureVars == <<pc, entry, surround, log, visited, outcome, backtraces, opens,
                 openFailed, conns, writes, netFailed, condition>>
windowVars == <<wFile, wLine, wSurround, wOut>>
resolveVars == <<rSym, rOpen, rOut>>

(***************************************************************************)
(* Bounds of the model.                                                    *)
(***************************************************************************)
MaxFrames == 3      \* symbols visited by one stack walk
MaxLines == 3       \* lines of a file in the window check
MaxLineNo == 5      \* line numbers tried in the window check
MaxSurround == 2    \* surround values tried in the window check
MaxNameLen == 5     \* characters of a symbol name in the resolve check

(***************************************************************************)
(* Program constants.                                                      *)
(***************************************************************************)
\* The ceiling of u32.  TLC's integers are 32-bit signed, so the ceiling is
\* the largest one TLC holds; every sum below is written so as not to pass it.
U32Max == 2147483647
DefaultSurround == 3

(***************************************************************************)
(* Option<T>: None is the empty sequence, Some(x) the one-element one.     *)
(***************************************************************************)
None == <<>>
Some(x) == <<x>>
unwrap(o) == o[1]
unwrap_or(o, d) == IF o = None THEN d ELSE o[1]

(***************************************************************************)
(* u32 arithmetic.                                                         *)
(***************************************************************************)
saturating_sub(a, b) == IF a > b THEN a - b ELSE 0
saturating_add(a, b) == IF a > U32Max - b THEN U32Max ELSE a + b

(***************************************************************************)
(* str helpers.                                                            *)
(***************************************************************************)
starts_with(s, p) == Len(p) <= Len(s) /\ SubSeq(s, 1, Len(p)) = p
ends_with(s, p) == Len(p) <= Len(s) /\ SubSeq(s, Len(s) - Len(p) + 1, Len(s)) = p
contains(s, p) == \E i \in 1..(Len(s) - Len(p) + 1) : SubSeq(s, i, i + Len(p) - 1) = p

IsWhite(c) == c = " "

RECURSIVE trim_start(_)
trim_start(s) == IF s /= <<>> /\ IsWhite(Head(s)) THEN trim_start(Tail(s)) ELSE s

RECURSIVE trim_end(_)
trim_end(s) ==
    IF s /= <<>> /\ IsWhite(s[Len(s)]) THEN trim_end(SubSeq(s, 1, Len(s) - 1)) ELSE s

trim(s) == trim_end(trim_start(s))

Sep == <<":", ":">>

\* str::split("::"): leftmost non-overlapping matches; cur is the piece being
\* read, acc the pieces already closed.
RECURSIVE SplitFrom(_, _, _, _)
SplitFrom(s, i, cur, acc) ==
    IF i > Len(s) THEN Append(acc, cur)
    ELSE IF i + 1 <= Len(s) /\ s[i] = ":" /\ s[i + 1] = ":"
         THEN SplitFrom(s, i + 2, <<>>, Append(acc, cur))
         ELSE SplitFrom(s, i + 1, Append(cur, s[i]), acc)

split(s) == SplitFrom(s, 1, <<>>, <<>>)

RECURSIVE join(_)
join(parts) ==
    IF parts = <<>> THEN <<>>
    ELSE IF Len(parts) = 1 THEN parts[1]
    ELSE parts[1] \o Sep \o join(Tail(parts))

(***************************************************************************)
(* Files.  An opened file is the sequence of the items reader.lines()      *)
(* yields: [ok |-> TRUE, text |-> line] or an Err item (ok = FALSE).       *)
(* NoFile stands for a File::open that returned Err.                       *)
(***************************************************************************)
NoFile == [opened |-> FALSE, items |-> <<>>]
Opened(items) == [opened |-> TRUE, items |-> items]

Digits == <<"1", "2", "3", "4", "5", "6", "7", "8", "9">>

\* Line i of a generated file: its number, indented on odd lines.
LineText(i) == IF i % 2 = 1 THEN <<" ", Digits[i]>> ELSE <<Digits[i], " ">>

MkFile(len, bad) ==
    Opened([i \in 1..len |-> IF i \in bad THEN [ok |-> FALSE, text |-> <<>>]
                                           ELSE [ok |-> TRUE, text |-> LineText(i)]])

\* Log::get_code with an unwrap_or_default in place of the panic.
get_code_lenient(file, line_number) ==
    IF ~file.opened THEN [panic |-> FALSE, code |-> <<>>]
    ELSE LET i == saturating_sub(line_number, 1) + 1
             items == file.items
         IN  [panic |-> FALSE,
              code |-> IF i <= Len(items) /\ items[i].ok THEN trim(items[i].text)
                       ELSE <<>>]

\* Log::get_code: the trimmed line, "" when the line is missing or unreadable,
\* a panic when the file cannot be opened.
get_code(file, line_number) ==
    IF ~file.opened THEN [panic |-> TRUE, code |-> <<>>]
    ELSE LET i == saturating_sub(line_number, 1) + 1
             items == file.items
         IN  [panic |-> FALSE,
              code |-> IF i <= Len(items) /\ items[i].ok THEN trim(items[i].text)
                       ELSE <<>>]

\* CodeSnippet::new(): a snippet is the set of its (line number, text) entries.
CodeSnippetNew == {}

\* Log::get_code_snippet.  overflow_checks is the build's setting for integer
\* overflow: `lines.len() as u32 - 1` on an empty map panics with it, wraps
\* without it.  BTreeMap::range panics on start > end unless the map is empty.
get_code_snippet(file, line_number, surround_, overflow_checks) ==
    IF ~file.opened THEN [kind |-> "PanicOpen", snippet |-> {}]
    ELSE
    LET offset == saturating_sub(line_number, surround_)
        items == file.items
        lines == {<<n, items[n].text>> : n \in {i \in 1..Len(items) : items[i].ok}}
        len == Cardinality(lines)
        end0 == saturating_add(line_number, surround_)
        lenMinus1 == IF len = 0 THEN U32Max ELSE len - 1
        end == IF end0 > lenMinus1 THEN lenMinus1 ELSE end0
    IN  IF len = 0 /\ overflow_checks THEN [kind |-> "PanicOverflow", snippet |-> {}]
        ELSE IF lines /= {} /\ offset > end THEN [kind |-> "PanicRange", snippet |-> {}]
        ELSE [kind |-> "Ok",
              snippet |-> {e \in lines : offset <= e[1] /\ e[1] <= end}]

(***************************************************************************)
(* get_stack_trace: the callback run on every resolved symbol.             *)
(***************************************************************************)
PatLog == <<"L","o","g","<","T",">",":",":","l","o","g">>
PatLogIf == PatLog \o <<"_","i","f">>
PatBoxedLogIf == <<"L","o","g","<","T",">",":",":","b","o","x","e","d","_">> \o
                 <<"l","o","g","_","i","f">>
PatGetStackTrace == <<"L","o","g","<","T",">",":",":","g","e","t","_">> \o
                    <<"s","t","a","c","k","_","t","r","a","c","e">>
PatRustc == <<"/","r","u","s","t","c","/">>
PatRs == <<".","r","s">>

\* Normalisation that drops the last piece even when it is the only one.
NormalizeNameAlways(symName) ==
    IF symName = None THEN <<>>
    ELSE LET parts == split(unwrap(symName))
         IN  join(SubSeq(parts, 1, Len(parts) - 1))

\* lines 214-227: the name kept for a symbol.
NormalizeName(symName) ==
    IF symName = None THEN <<>>
    ELSE LET parts == split(unwrap(symName))
         IN  join(IF Len(parts) > 1 THEN SubSeq(parts, 1, Len(parts) - 1) ELSE parts)

\* lines 235-240: the filter on the normalised name and the file path.
Retained(name, file_path) ==
    /\ ~(\/ ends_with(name, PatLog)
         \/ ends_with(name, PatLogIf)
         \/ ends_with(name, PatBoxedLogIf))
    /\ ~ends_with(name, PatGetStackTrace)
    /\ ~starts_with(file_path, PatRustc)
    /\ contains(file_path, PatRs)

\* lines 229-231: file, line and column all resolved.
Located(sym) == sym.filename /= None /\ sym.lineno /= None /\ sym.colno /= None

\* The callback reaches File::open for this symbol.
Qualifies(sym) ==
    Located(sym) /\ Retained(NormalizeName(sym.name), unwrap(sym.filename))

\* VecDeque::push_back, the wrong end.
push_back(stack, x) == Append(stack, x)

\* VecDeque::push_front.
push_front(stack, x) == <<x>> \o stack

BacktraceData(name, sym, code) ==
    [name |-> name, file_path |-> unwrap(sym.filename),
     line_number |-> unwrap(sym.lineno), column_number |-> unwrap(sym.colno),
     code |-> code]

\* lines 213-253: one run of the callback on symbol sym; file is what
\* File::open gives for sym.filename.
resolve_callback(stack, sym, file) ==
    LET name == NormalizeName(sym.name)
    IN  IF Located(sym) /\ Retained(name, unwrap(sym.filename))
        THEN LET c == get_code(file, unwrap(sym.lineno))
             IN  IF c.panic THEN [panic |-> TRUE, name |-> name, stack |-> stack]
                 ELSE [panic |-> FALSE, name |-> name,
                       stack |-> push_front(stack, BacktraceData(name, sym, c.code))]
        ELSE [panic |-> FALSE, name |-> name, stack |-> stack]

(***************************************************************************)
(* The values the variables of one check hold while another check runs.    *)
(***************************************************************************)
\* lines 106-116: the fresh Log value.
NewLog ==
    [stack |-> <<>>, line_number |-> 0, file_name |-> <<>>,
     code_snippet |-> CodeSnippetNew, address |-> <<>>, warnings |-> <<>>]

NotRead == [kind |-> "none", snippet |-> {}]
NotResolved == [applied |-> FALSE, panic |-> FALSE, name |-> <<>>, stack |-> <<>>]
NoSymbol == [name |-> None, filename |-> None, lineno |-> None, colno |-> None]

CaptureIdle ==
    /\ pc = "start" /\ entry = "none" /\ surround = None /\ log = NewLog
    /\ visited = <<>> /\ outcome = "none" /\ backtraces = 0 /\ opens = 0
    /\ openFailed = FALSE /\ conns = 0 /\ writes = 0 /\ netFailed = "none"
    /\ condition = "none"

WindowIdle == wFile = NoFile /\ wLine = 0 /\ wSurround = 0 /\ wOut = NotRead

ResolveIdle == rSym = NoSymbol /\ rOpen = FALSE /\ rOut = NotResolved

(***************************************************************************)
(* SpecWindow: get_code_snippet on every file, line number and surround    *)
(* within the bounds.                                                      *)
(***************************************************************************)
WindowFiles ==
    {NoFile} \cup {MkFile(len, bad) : len \in 0..MaxLines, bad \in SUBSET (1..MaxLines)}

InitWindow ==
    /\ CaptureIdle /\ ResolveIdle
    /\ wFile \in WindowFiles
    /\ wLine \in (0..MaxLineNo) \cup {U32Max}
    /\ wSurround \in (0..MaxSurround) \cup {U32Max}
    /\ wOut = NotRead

ReadWindow ==
    /\ wOut.kind = "none"
    /\ \E overflow_checks \in BOOLEAN :
           wOut' = get_code_snippet(wFile, wLine, wSurround, overflow_checks)
    /\ UNCHANGED <<wFile, wLine, wSurround, captureVars, resolveVars>>

NextWindow == ReadWindow

SpecWindow == InitWindow /\ [][NextWindow]_vars

\* The file of the window check is open and every line of it is readable.
WholeFile == wFile.opened /\ \A i \in 1..Len(wFile.items) : wFile.items[i].ok

WLen == Len(wFile.items)

\* C1: for an openable file with L lines, 1 <= n <= L and s >= 0,
\* get_code_snippet returns the snippet whose keys are exactly
\* max(1, n - s) .. min(L, n + s) (the j with n - s <= j <= n + s among
\* 1..L), each mapped to that line of the file.
C1_WindowIsExactRange ==
    (wOut.kind /= "none" /\ WholeFile /\ 1 <= wLine /\ wLine <= WLen)
        => /\ wOut.kind = "Ok"
           /\ wOut.snippet =
                  {<<k, wFile.items[k].text>> :
                       k \in {j \in 1..WLen : /\ wLine - wSurround <= j
                                              /\ j - wLine <= wSurround}}

\* C2: for an openable file with L >= 0 lines, n >= 1 and s >= 0 with
\* n + s > L, get_code_snippet returns normally and no key of the result
\* exceeds L.
C2_WindowClipsWithoutAbort ==
    (wOut.kind /= "none" /\ WholeFile /\ 1 <= wLine /\ wLine > WLen - wSurround)
        => /\ wOut.kind = "Ok"
           /\ \A e \in wOut.snippet : e[1] <= WLen

(***************************************************************************)
(* The files on disk and the symbols a walk can meet.                      *)
(***************************************************************************)
PathMain == <<"/","a","/","m",".","r","s">>
PathEmpty == <<"/","a","/","e",".","r","s">>
PathLib == <<"/","c","/","l",".","r","s">>
PathStd == PatRustc \o <<"s",".","r","s">>
PathC == <<"/","a","/","u",".","c">>
PathCInRsDir == <<"/","x",".","r","s","/","u",".","c">>

\* What a successful File::open of path reads.
FileAt(path) ==
    IF path = PathMain THEN MkFile(3, {})
    ELSE IF path = PathEmpty THEN MkFile(0, {})
    ELSE MkFile(2, {})

\* File::open(path): Ok(file) or Err.
Open(path, ok) == IF ok THEN FileAt(path) ELSE NoFile

(***************************************************************************)
(* SpecResolve: the resolve callback on one symbol and an empty stack, for *)
(* every symbol name within the bounds.                                    *)
(***************************************************************************)
NameChars == {"a", "h", ":"}
Names == UNION {[1..k -> NameChars] : k \in 0..MaxNameLen}

ResolveSymbols ==
    [name : {None} \cup {Some(n) : n \in Names},
     filename : {None, Some(PathMain), Some(PathStd), Some(PathC)},
     lineno : {None, Some(2)},
     colno : {None, Some(1)}]

InitResolve ==
    /\ CaptureIdle /\ WindowIdle
    /\ rSym \in ResolveSymbols
    /\ rOpen \in BOOLEAN
    /\ rOut = NotResolved

ResolveOne ==
    /\ ~rOut.applied
    /\ LET file == IF rSym.filename = None THEN NoFile
                   ELSE Open(unwrap(rSym.filename), rOpen)
           r == resolve_callback(<<>>, rSym, file)
       IN  rOut' = [applied |-> TRUE, panic |-> r.panic, name |-> r.name,
                    stack |-> r.stack]
    /\ UNCHANGED <<rSym, rOpen, captureVars, windowVars>>

NextResolve == ResolveOne

SpecResolve == InitResolve /\ [][NextResolve]_vars

\* s holds no "::".
NoSep(s) == ~contains(s, Sep)

\* C10: the name kept for a symbol is the raw name with exactly its final
\* "::"-delimited segment removed (raw = kept ++ "::" ++ last, last without
\* "::"), the raw name itself when it has no "::", and "" when the symbol has
\* no name; a nameless symbol whose file, line and column resolved and which
\* passes the filter is retained, with the name "".
C10_NameNormalization ==
    rOut.applied =>
        /\ rSym.name = None => rOut.name = <<>>
        /\ (rSym.name /= None /\ NoSep(unwrap(rSym.name)))
               => rOut.name = unwrap(rSym.name)
        /\ (rSym.name /= None /\ ~NoSep(unwrap(rSym.name)))
               => \E i \in 1..Len(unwrap(rSym.name)) :
                      LET raw == unwrap(rSym.name)
                          last == SubSeq(raw, i, Len(raw))
                      IN  /\ NoSep(SubSeq(last, 3, Len(last)))
                          /\ raw = rOut.name \o Sep \o SubSeq(last, 3, Len(last))
        /\ (~rOut.panic /\ rOut.stack /= <<>>) => rOut.stack[1].name = rOut.name
        /\ (/\ rSym.name = None
            /\ rSym.filename /= None /\ rSym.lineno /= None /\ rSym.colno /= None
            /\ rSym.filename \notin {Some(PathStd), Some(PathC)}
            /\ rOpen)
               => /\ Len(rOut.stack) = 1
                  /\ rOut.stack[1].name = <<>>
                  /\ rOut.stack[1].file_path = unwrap(rSym.filename)

\* C10 witness: the name "a::ha" was cut to "a" and the frame was retained.
C10_Witness ==
    /\ rOut.applied
    /\ rSym.name = Some(<<"a", ":", ":", "h", "a">>)
    /\ Len(rOut.stack) = 1
    /\ rOut.stack[1].name = <<"a">>

(***************************************************************************)
(* Spec: one capture, from the call of an entry point to its return or     *)
(* panic.  The backtrace, the outcome of every File::open and the outcome  *)
(* of every transport step are inputs.                                     *)
(***************************************************************************)
NameRun == <<"a">> \o Sep \o <<"r">> \o Sep \o <<"h">>
NameStd == <<"s">> \o Sep \o <<"r">> \o Sep \o <<"h">>
NameLog == <<"c">> \o Sep \o PatLog \o Sep \o <<"h">>
NameLogIf == <<"c">> \o Sep \o PatLogIf \o Sep \o <<"h">>
NameBoxedLogIf == <<"c">> \o Sep \o PatBoxedLogIf \o Sep \o <<"h">>
NameGetStackTrace == <<"c">> \o Sep \o PatGetStackTrace \o Sep \o <<"h">>

Sym(name, path, line) ==
    [name |-> name, filename |-> path, lineno |-> Some(line), colno |-> Some(1)]

\* The symbols a backtrace is made of: application frames (one of them
\* without a name, one in an empty file), the logger's own frames, a
\* standard-library frame and a frame of a C file under a directory "x.rs".
\* Symbols without a location, names without "::" and other C files are met
\* in SpecResolve.
Symbols ==
    {Sym(Some(NameRun), Some(PathMain), 3),
     Sym(None, Some(PathMain), 2),
     Sym(Some(NameRun), Some(PathEmpty), 1),
     Sym(Some(NameLog), Some(PathLib), 1),
     Sym(Some(NameLogIf), Some(PathLib), 2),
     Sym(Some(NameBoxedLogIf), Some(PathLib), 2),
     Sym(Some(NameGetStackTrace), Some(PathLib), 2),
     Sym(Some(NameStd), Some(PathStd), 1),
     Sym(Some(NameRun), Some(PathCInRsDir), 1)}

SurroundArgs == {None, Some(0)}

Init == CaptureIdle /\ WindowIdle /\ ResolveIdle

\* Log::log called directly.
log_call ==
    /\ pc = "start"
    /\ \E s \in SurroundArgs : surround' = s
    /\ entry' = "log"
    /\ pc' = "log"
    /\ UNCHANGED <<log, visited, outcome, backtraces, opens, openFailed, conns,
                   writes, netFailed, condition, windowVars, resolveVars>>

\* A gate that calls Log::log whatever its predicate says.
log_if_always ==
    /\ pc = "start"
    /\ \E s \in SurroundArgs : surround' = s
    /\ \E c \in BOOLEAN : condition' = IF c THEN "true" ELSE "false"
    /\ entry' = "log_if"
    /\ pc' = "log"
    /\ UNCHANGED <<log, visited, outcome, backtraces, opens, openFailed, conns,
                   writes, netFailed, windowVars, resolveVars>>

\* Log::log_if: condition() is evaluated; false returns Ok(false) at once.
log_if ==
    /\ pc = "start"
    /\ \E s \in SurroundArgs : surround' = s
    /\ entry' = "log_if"
    /\ \E c \in BOOLEAN :
           /\ condition' = IF c THEN "true" ELSE "false"
           /\ pc' = IF c THEN "log" ELSE "returned"
           /\ outcome' = IF c THEN outcome ELSE "OkFalse"
    /\ UNCHANGED <<log, visited, backtraces, opens, openFailed, conns, writes,
                   netFailed, windowVars, resolveVars>>

\* Log::boxed_log_if: the same gate over a boxed closure.
boxed_log_if ==
    /\ pc = "start"
    /\ \E s \in SurroundArgs : surround' = s
    /\ entry' = "boxed_log_if"
    /\ \E c \in BOOLEAN :
           /\ condition' = IF c THEN "true" ELSE "false"
           /\ pc' = IF c THEN "log" ELSE "returned"
           /\ outcome' = IF c THEN outcome ELSE "OkFalse"
    /\ UNCHANGED <<log, visited, backtraces, opens, openFailed, conns, writes,
                   netFailed, windowVars, resolveVars>>

\* Log::log, lines 106-135: the fresh Log value, then get_stack_trace starts
\* with Backtrace::new().
log_enter ==
    /\ pc = "log"
    /\ log' = NewLog
    /\ backtraces' = backtraces + 1
    /\ pc' = "walk"
    /\ UNCHANGED <<entry, surround, visited, outcome, opens, openFailed, conns,
                   writes, netFailed, condition, windowVars, resolveVars>>

\* get_stack_trace, one turn of the loop: the callback on the next symbol.
get_stack_trace_step ==
    /\ pc = "walk"
    /\ Len(visited) < MaxFrames
    /\ \E sym \in Symbols, ok \in BOOLEAN :
           LET q == Qualifies(sym)
               file == IF q THEN Open(unwrap(sym.filename), ok) ELSE NoFile
               r == resolve_callback(log.stack, sym, file)
           IN  /\ visited' = Append(visited, sym)
               /\ opens' = IF q THEN opens + 1 ELSE opens
               /\ openFailed' = (openFailed \/ (q /\ ~ok))
               /\ log' = [log EXCEPT !.stack = r.stack]
               /\ pc' = IF r.panic THEN "panicked" ELSE "walk"
               /\ outcome' = IF r.panic THEN "PanicOpenLine" ELSE outcome
    /\ UNCHANGED <<entry, surround, backtraces, conns, writes, netFailed,
                   condition, windowVars, resolveVars>>

\* get_stack_trace returns: the backtrace has no more frames.
get_stack_trace_end ==
    /\ pc = "walk"
    /\ pc' = "build"
    /\ UNCHANGED <<entry, surround, log, visited, outcome, backtraces, opens,
                   openFailed, conns, writes, netFailed, condition, windowVars,
                   resolveVars>>

\* VecDeque::front, the wrong end.
back_front(stack) == stack[1]

\* VecDeque::back of a non-empty deque.
back(stack) == stack[Len(stack)]

\* A build that gives up with an error when no frame was retained.
log_build_strict ==
    /\ pc = "build"
    /\ IF log.stack = <<>>
       THEN /\ pc' = "returned"
            /\ outcome' = "Err"
            /\ UNCHANGED <<log, opens, openFailed>>
       ELSE \E ok \in BOOLEAN, overflow_checks \in BOOLEAN :
                LET last == back(log.stack)
                    r == get_code_snippet(Open(last.file_path, ok), last.line_number,
                                          unwrap_or(surround, DefaultSurround),
                                          overflow_checks)
                IN  /\ opens' = opens + 1
                    /\ openFailed' = (openFailed \/ ~ok)
                    /\ pc' = IF r.kind = "Ok" THEN "runtime" ELSE "panicked"
                    /\ outcome' = IF r.kind = "Ok" THEN outcome ELSE r.kind
                    /\ log' = IF r.kind = "Ok"
                              THEN [log EXCEPT !.code_snippet = r.snippet,
                                               !.line_number = last.line_number,
                                               !.file_name = last.file_path]
                              ELSE log
    /\ UNCHANGED <<entry, surround, visited, backtraces, conns, writes, netFailed,
                   condition, windowVars, resolveVars>>

\* Log::log, lines 131 and 137-143: snippet, line and file of the last frame.
log_build ==
    /\ pc = "build"
    /\ IF log.stack = <<>>
       THEN /\ pc' = "runtime"
            /\ UNCHANGED <<log, outcome, opens, openFailed>>
       ELSE \E ok \in BOOLEAN, overflow_checks \in BOOLEAN :
                LET last == back(log.stack)
                    r == get_code_snippet(Open(last.file_path, ok), last.line_number,
                                          unwrap_or(surround, DefaultSurround),
                                          overflow_checks)
                IN  /\ opens' = opens + 1
                    /\ openFailed' = (openFailed \/ ~ok)
                    /\ pc' = IF r.kind = "Ok" THEN "runtime" ELSE "panicked"
                    /\ outcome' = IF r.kind = "Ok" THEN outcome ELSE r.kind
                    /\ log' = IF r.kind = "Ok"
                              THEN [log EXCEPT !.code_snippet = r.snippet,
                                               !.line_number = last.line_number,
                                               !.file_name = last.file_path]
                              ELSE log
    /\ UNCHANGED <<entry, surround, visited, backtraces, conns, writes, netFailed,
                   condition, windowVars, resolveVars>>

\* What the entry point returns for the result res of Log::log: log returns
\* it, the gates turn Ok(()) into Ok(true) and pass an error on with `?`.
Return(e, res) == IF res = "Ok" /\ e /= "log" THEN "OkTrue" ELSE res

\* Log::log, line 145: Runtime::new()?.
runtime_new ==
    /\ pc = "runtime"
    /\ \E ok \in BOOLEAN :
           /\ pc' = IF ok THEN "send" ELSE "returned"
           /\ outcome' = IF ok THEN outcome ELSE Return(entry, "Err")
    /\ UNCHANGED <<entry, surround, log, visited, backtraces, opens, openFailed,
                   conns, writes, netFailed, condition, windowVars, resolveVars>>

\* A _log that reports a failed write as success.
_log_ignore_write(sock, addr, conn, ser, wr) ==
    IF ~sock THEN [result |-> "Err", conns |-> 0, writes |-> 0, failed |-> "none"]
    ELSE IF ~addr
    THEN [result |-> "PanicAddr", conns |-> 0, writes |-> 0, failed |-> "none"]
    ELSE IF ~conn
    THEN [result |-> "Err", conns |-> 1, writes |-> 0, failed |-> "connect"]
    ELSE IF ~ser THEN [result |-> "Err", conns |-> 1, writes |-> 0, failed |-> "none"]
    ELSE IF ~wr THEN [result |-> "Ok", conns |-> 1, writes |-> 1, failed |-> "write"]
    ELSE [result |-> "Ok", conns |-> 1, writes |-> 1, failed |-> "none"]

\* Log::_log: socket, address parse (unwrap), connect, serialise, write_all;
\* each `?` returns the error at once.  The arguments are the outcomes of the
\* five steps.
_log(sock, addr, conn, ser, wr) ==
    IF ~sock THEN [result |-> "Err", conns |-> 0, writes |-> 0, failed |-> "none"]
    ELSE IF ~addr
    THEN [result |-> "PanicAddr", conns |-> 0, writes |-> 0, failed |-> "none"]
    ELSE IF ~conn
    THEN [result |-> "Err", conns |-> 1, writes |-> 0, failed |-> "connect"]
    ELSE IF ~ser THEN [result |-> "Err", conns |-> 1, writes |-> 0, failed |-> "none"]
    ELSE IF ~wr THEN [result |-> "Err", conns |-> 1, writes |-> 1, failed |-> "write"]
    ELSE [result |-> "Ok", conns |-> 1, writes |-> 1, failed |-> "none"]

\* Log::log, lines 146-152: block_on(_log) and the return of its result.
block_on_log ==
    /\ pc = "send"
    /\ \E sock \in BOOLEAN, addr \in BOOLEAN, conn \in BOOLEAN, ser \in BOOLEAN,
          wr \in BOOLEAN :
           LET r == _log(sock, addr, conn, ser, wr)
           IN  /\ conns' = conns + r.conns
               /\ writes' = writes + r.writes
               /\ netFailed' = r.failed
               /\ pc' = IF r.result = "PanicAddr" THEN "panicked" ELSE "returned"
               /\ outcome' = Return(entry, r.result)
    /\ UNCHANGED <<entry, surround, log, visited, backtraces, opens, openFailed,
                   condition, windowVars, resolveVars>>

Next ==
    \/ log_call
    \/ log_if
    \/ boxed_log_if
    \/ log_enter
    \/ get_stack_trace_step
    \/ get_stack_trace_end
    \/ log_build
    \/ runtime_new
    \/ block_on_log

Spec == Init /\ [][Next]_vars

(***************************************************************************)
(* Claims on Spec.                                                         *)
(***************************************************************************)
RECURSIVE Reverse(_)
Reverse(s) == IF s = <<>> THEN <<>> ELSE Append(Reverse(Tail(s)), Head(s))

\* Where a frame or a symbol points.
FrameLoc(f) == <<f.file_path, f.line_number, f.column_number>>
SymLoc(sym) == <<unwrap(sym.filename), unwrap(sym.lineno), unwrap(sym.colno)>>

RECURSIVE QualifyingLocs(_)
QualifyingLocs(syms) ==
    IF syms = <<>> THEN <<>>
    ELSE IF Qualifies(Head(syms))
         THEN <<SymLoc(Head(syms))>> \o QualifyingLocs(Tail(syms))
         ELSE QualifyingLocs(Tail(syms))

\* The symbols whose callback has completed: all the visited ones, but for the
\* last one when its File::open panicked.
Completed ==
    IF outcome = "PanicOpenLine" THEN SubSeq(visited, 1, Len(visited) - 1)
    ELSE visited

\* The capture is past the build of the record.
Built == pc \in {"runtime", "send"} \/ (pc = "returned" /\ outcome /= "OkFalse")
             \/ (pc = "panicked" /\ outcome = "PanicAddr")

\* C3: whenever the stack is non-empty, the record built by Log::log has the
\* line_number and file_name of the last element of the stack, and its
\* code_snippet is get_code_snippet of that frame's file and line with the
\* effective surround.
C3_RecordFromLastFrame ==
    (Built /\ log.stack /= <<>>)
        => LET last == log.stack[Len(log.stack)]
           IN  /\ log.line_number = last.line_number
               /\ log.file_name = last.file_path
               /\ \E oc \in BOOLEAN :
                      LET r == get_code_snippet(FileAt(last.file_path),
                                                last.line_number,
                                                unwrap_or(surround, DefaultSurround),
                                                oc)
                      IN  r.kind = "Ok" /\ log.code_snippet = r.snippet

\* C3 witness: a record built from a stack whose first and last frames differ
\* in line and file.
C3_Witness ==
    /\ pc = "send"
    /\ Len(log.stack) >= 2
    /\ log.stack[1].line_number /= log.stack[Len(log.stack)].line_number
    /\ log.stack[1].file_path /= log.stack[Len(log.stack)].file_path
    /\ log.line_number = log.stack[Len(log.stack)].line_number
    /\ log.code_snippet /= {}

\* C4: after each step of the walk the stack is the qualifying frames visited
\* so far in reverse visiting order.
C4_StackIsReverseOfVisited ==
    [i \in 1..Len(log.stack) |-> FrameLoc(log.stack[i])]
        = Reverse(QualifyingLocs(Completed))

\* C4 witness: the walk is over, three frames were visited, two qualified, and
\* the innermost of them is last.
C4_Witness ==
    /\ pc = "build"
    /\ Len(visited) = 3
    /\ Len(log.stack) = 2
    /\ Qualifies(visited[1]) /\ ~Qualifies(visited[2]) /\ Qualifies(visited[3])
    /\ FrameLoc(log.stack[2]) = SymLoc(visited[1])
    /\ FrameLoc(log.stack[1]) = SymLoc(visited[3])
    /\ SymLoc(visited[1]) /= SymLoc(visited[3])

\* The normalised name is that of a capture entry point or of the stack walk.
IsCaptureName(name) ==
    \/ ends_with(name, PatLog) \/ ends_with(name, PatLogIf)
    \/ ends_with(name, PatBoxedLogIf) \/ ends_with(name, PatGetStackTrace)

\* C5: the stack never holds a frame of the /rustc/ tree, a frame of a capture
\* entry point or of the stack walk, or a frame whose file is not a Rust
\* source file (a path that does not end in ".rs").
C5_StackHoldsOnlyApplicationSource ==
    \A i \in 1..Len(log.stack) :
        /\ ~starts_with(log.stack[i].file_path, PatRustc)
        /\ ~IsCaptureName(log.stack[i].name)
        /\ ends_with(log.stack[i].file_path, PatRs)

\* No visited symbol passes the filter.
NoneQualifies(syms) == \A i \in 1..Len(syms) : ~Qualifies(syms[i])

EmptyLocation(l) ==
    /\ l.stack = <<>> /\ l.line_number = 0 /\ l.file_name = <<>>
    /\ l.code_snippet = {}

C7_FalseGateDoesNothing ==
    condition = "false"
        => /\ pc = "returned" /\ outcome = "OkFalse"
           /\ backtraces = 0 /\ opens = 0 /\ conns = 0 /\ writes = 0
           /\ visited = <<>> /\ log = NewLog

\* C7 witness: boxed_log_if has returned Ok(false).
C7_Witness ==
    condition = "false" /\ entry = "boxed_log_if" /\ outcome = "OkFalse"

C9_UnreadableFileAborts ==
    openFailed
        => /\ pc = "panicked"
           /\ outcome \in {"PanicOpenLine", "PanicOpen"}
           /\ conns = 0 /\ writes = 0

\* C9 witness: get_code could not open the file of a frame met after another
\* frame had been retained.
C9_Witness ==
    /\ openFailed /\ outcome = "PanicOpenLine"
    /\ Len(log.stack) >= 1

====
